---- MODULE Spec2Model ----
(***************************************************************************)
(* State-machine model of the AI task agent (src/taskAgent.py, the OpenAI  *)
(* binding, and src/taskAgentClaude.py, the Anthropic binding).  One       *)
(* AITaskAgent object lives per process; both bindings read and write the  *)
(* same backing document tasks.json.                                       *)
(*                                                                         *)
(* A Python dict is a function from its keys to its values; a JSON text is *)
(* what the provider or the file holds before parsing: an object is the    *)
(* sequence of its <<key, value>> members in document order.               *)
(*                                                                         *)
(* The environment: the provider answers anything or fails; the disk does  *)
(* not fail (open and json.dump of save_tasks succeed); tasks.json is      *)
(* written by this program alone and is absent at the first start; the     *)
(* clock is read as the ordinal of the timestamps handed out, later calls  *)
(* getting later times.                                                    *)
(***************************************************************************)
EXTENDS Integers, Sequences, FiniteSets, TLC

VARIABLES
    tasks,          \* self.tasks: list of task dicts
    task_history,   \* self.task_history: list of history dicts
    file,           \* tasks.json on disk: [exists, text]
    provider,       \* which binding this process runs: "openai" or "claude"
    now,            \* the latest time datetime.now() gave
    last            \* the last call made on the agent, what it got from the
                    \* provider and what it gave back to main()

vars == <<tasks, task_history, file, provider, now, last>>

-----------------------------------------------------------------------------
(* Bounds of the model *)

MaxClock == 4

-----------------------------------------------------------------------------
(* Inputs *)

Providers == {"openai", "claude"}

Descriptions == {"Write spec"}

TaskIds == 0 .. MaxClock

\* datetime.isoformat(): the timestamp as text
isoformat(t) == <<"iso8601", t>>

-----------------------------------------------------------------------------
(* JSON *)

Garbage == [kind |-> "text", members |-> <<>>]
JsonArray == [kind |-> "array", members |-> <<>>]
JsonObject(members) == [kind |-> "object", members |-> members]

Keys(members) == {members[i][1] : i \in DOMAIN members}

\* The value a key gets when an object is parsed: the last member of that name
LastValue(members, k) ==
    LET idx == {i \in DOMAIN members : members[i][1] = k}
        j == CHOOSE i \in idx : \A h \in idx : h <= i
    IN  members[j][2]

DictOf(members) == [k \in Keys(members) |-> LastValue(members, k)]

\* json.loads of one text: a dict, a value that is no dict, or JSONDecodeError
json_loads(text) ==
    CASE text.kind = "object" -> [ok |-> TRUE, isdict |-> TRUE, value |-> DictOf(text.members)]
      [] text.kind = "array" -> [ok |-> TRUE, isdict |-> FALSE, value |-> <<>>]
      [] OTHER -> [ok |-> FALSE, isdict |-> FALSE, value |-> <<>>]

\* The order in which a task dict holds its keys (insertion order)
KeyOrder ==
    <<"id", "description", "created_at", "priority", "estimated_hours",
      "category", "subtasks", "status", "completed_at">>

RECURSIVE MembersFrom(_, _)
MembersFrom(d, i) ==
    IF i > Len(KeyOrder) THEN <<>>
    ELSE IF KeyOrder[i] \in DOMAIN d
         THEN <<<<KeyOrder[i], d[KeyOrder[i]]>>>> \o MembersFrom(d, i + 1)
         ELSE MembersFrom(d, i + 1)

\* Faulty variant: the document is written from the keys a task is created with
dump_dict_created(d) == SubSeq(MembersFrom(d, 1), 1, 8)

\* json.dump of one dict
dump_dict(d) == MembersFrom(d, 1)

\* json.dump(self.tasks, f, indent=2): the array of the tasks' objects
json_dump(ts) == [i \in 1 .. Len(ts) |-> dump_dict(ts[i])]

\* json.load(f) of a document json.dump wrote
json_load(doc) == [i \in 1 .. Len(doc) |-> DictOf(doc[i])]

-----------------------------------------------------------------------------
(* Task Store *)

Absent == [exists |-> FALSE, text |-> <<>>]

\* load_tasks: the parsed document, or [] on FileNotFoundError
load_tasks(f) == IF f.exists THEN json_load(f.text) ELSE <<>>

\* save_tasks: the document is rewritten in full
save_tasks(ts) == [exists |-> TRUE, text |-> json_dump(ts)]

-----------------------------------------------------------------------------
(* AI provider *)

Unavailable == [ok |-> FALSE, blocks |-> <<>>]
Reply(blocks) == [ok |-> TRUE, blocks |-> blocks]

Priorities == {"high", "urgent"}

\* An analysis object: the keys named in `has`, in the order the prompt asks
\* for them, the time estimate under either name
Analysis(has, p, h) ==
    JsonObject(SelectSeq(<<<<"priority", p>>,
                           <<"estimated_time", h>>,
                           <<"estimated_time_to_complete", h>>,
                           <<"category", "development">>,
                           <<"potential_subtasks", <<"outline">>>>>>,
                         LAMBDA m : m[1] \in has))

AllKeys ==
    {"priority", "estimated_time", "estimated_time_to_complete", "category",
     "potential_subtasks"}

\* The analysis objects a provider may answer with: complete under either
\* name of the time estimate, or with a key left out
AnalysisObjects ==
    {Analysis(AllKeys \ {k}, p, 2) :
        k \in {"estimated_time", "estimated_time_to_complete"}, p \in Priorities}
    \cup {Analysis(AllKeys \ {"priority"}, "high", 2)}

AnalysisReplies ==
    {Unavailable, Reply(<<Garbage>>), Reply(<<JsonArray>>)}
    \cup {Reply(<<o>>) : o \in AnalysisObjects}

\* The free-text answers: the provider fails, answers with no content, or
\* answers with one text
TextReplies ==
    {Unavailable, Reply(<<>>), Reply(<<"Do task 1 next">>),
     Reply(<<"No tasks available for analysis">>)}

\* response.choices[0].message.content / message.content[0].text
first_text(reply) == reply.blocks[1]

-----------------------------------------------------------------------------
(* The record of a call *)

Call(op, arg, reply, aiCalls, result, ret) ==
    [op |-> op, arg |-> arg, reply |-> reply, aiCalls |-> aiCalls,
     result |-> result, ret |-> ret]

NoReply == [ok |-> FALSE, blocks |-> <<"none">>]

-----------------------------------------------------------------------------
(* Task Analyzer *)

\* The key under which each binding reads the time estimate
TimeKey(p) ==
    IF p = "openai" THEN "estimated_time" ELSE "estimated_time_to_complete"

\* The keys add_task reads from the analysis, in the order it reads them
AnalysisKeys(p) == <<"priority", TimeKey(p), "category", "potential_subtasks">>

Raised(exc) == [ok |-> FALSE, exc |-> exc, isdict |-> FALSE, value |-> <<>>]

\* analyze_task_description: one provider call, the first text of the answer,
\* json.loads of it
analyze_task_description(reply) ==
    IF ~reply.ok THEN Raised("APIError")
    ELSE IF reply.blocks = <<>> THEN Raised("IndexError")
    ELSE LET parsed == json_loads(first_text(reply))
         IN  IF ~parsed.ok THEN Raised("JSONDecodeError")
             ELSE [ok |-> TRUE, exc |-> "none", isdict |-> parsed.isdict,
                   value |-> parsed.value]

\* What the subscripts analysis['...'] of the task literal raise, if anything
lookup_error(a, p) ==
    IF ~a.isdict THEN "TypeError"
    ELSE IF \E i \in 1 .. 4 : AnalysisKeys(p)[i] \notin DOMAIN a.value
         THEN "KeyError"
         ELSE "none"

\* Faulty variant: the id is counted from the pending tasks
next_id_pending(ts) ==
    Cardinality({i \in 1 .. Len(ts) : ts[i]["status"] = "pending"}) + 1

\* 'id': len(self.tasks) + 1
next_id(ts) == Len(ts) + 1

\* The task literal of add_task
new_task(ts, description, t, analysis, p) ==
    [id |-> next_id(ts),
     description |-> description,
     created_at |-> isoformat(t),
     priority |-> analysis["priority"],
     estimated_hours |-> analysis[TimeKey(p)],
     category |-> analysis["category"],
     subtasks |-> analysis["potential_subtasks"],
     status |-> "pending"]

-----------------------------------------------------------------------------
(* Task Manager *)

\* Faulty variant: the loop takes the first task whatever its id
find_task_first(ts, task_id) == IF ts = <<>> THEN 0 ELSE 1

\* The position of the first task with this id (0 when there is none): the
\* loop of complete_task stops at the first match
find_task(ts, task_id) ==
    LET hits == {i \in 1 .. Len(ts) : ts[i]["id"] = task_id}
    IN  IF hits = {} THEN 0 ELSE CHOOSE i \in hits : \A j \in hits : i <= j

\* d[k] = v on a dict
DictSet(d, k, v) == [x \in DOMAIN d \cup {k} |-> IF x = k THEN v ELSE d[x]]

\* Faulty variant: the time of completion is written over created_at
mark_completed_created(task, t) ==
    [[task EXCEPT !["status"] = "completed"] EXCEPT !["created_at"] = isoformat(t)]

\* task['status'] = 'completed'; task['completed_at'] = now
mark_completed(task, t) ==
    DictSet(DictSet(task, "status", "completed"), "completed_at", isoformat(t))

\* Faulty variant: the entry names the position of the task, counted from 0
history_entry_position(task_id, t) ==
    [action |-> "complete", task_id |-> task_id - 1, timestamp |-> isoformat(t)]

\* The dict complete_task appends to self.task_history
history_entry(task_id, t) ==
    [action |-> "complete", task_id |-> task_id, timestamp |-> isoformat(t)]

\* One line of display_tasks
display_line(task) ==
    <<IF task["status"] = "completed" THEN "done" ELSE "open",
      task["id"], task["description"], task["priority"], task["category"]>>

EmptyMessage == "No tasks available for analysis"

\* Faulty variant: the task is appended before the analysis is read
add_task_eager(description, reply) ==
    LET t == now + 1
        a == analyze_task_description(reply)
        err == lookup_error(a, provider)
        stub == [id |-> next_id(tasks), description |-> description,
                 created_at |-> isoformat(t), status |-> "pending"]
        task == new_task(tasks, description, t, a.value, provider)
    IN  IF ~a.ok
        THEN /\ last' = Call("add", description, reply, 1, a.exc, <<>>)
             /\ UNCHANGED <<tasks, task_history, file, provider, now>>
        ELSE /\ now < MaxClock
             /\ now' = t
             /\ tasks' = Append(tasks, IF err # "none" THEN stub ELSE task)
             /\ file' = IF err # "none" THEN file ELSE save_tasks(tasks')
             /\ last' = Call("add", description, reply, 1,
                             IF err # "none" THEN err ELSE "ok", <<>>)
             /\ UNCHANGED <<task_history, provider>>

\* Calls are separated by the prompts of main(), so the clock has moved on
\* whenever a call reads it; within one call it stands still.  A time read
\* for a task literal that a subscript then abandons is handed to nobody.
add_task(description, reply) ==
    LET t == now + 1
        a == analyze_task_description(reply)
        err == lookup_error(a, provider)
        task == new_task(tasks, description, t, a.value, provider)
    IN  IF ~a.ok
        THEN /\ last' = Call("add", description, reply, 1, a.exc, <<>>)
             /\ UNCHANGED <<tasks, task_history, file, provider, now>>
        ELSE IF err # "none"
        THEN /\ last' = Call("add", description, reply, 1, err, <<>>)
             /\ UNCHANGED <<tasks, task_history, file, provider, now>>
        ELSE /\ now < MaxClock
             /\ now' = t
             /\ tasks' = Append(tasks, task)
             /\ file' = save_tasks(tasks')
             /\ last' = Call("add", description, reply, 1, "ok",
                             <<"Added task with AI analysis: ", task>>)
             /\ UNCHANGED <<task_history, provider>>

complete_task(task_id) ==
    LET t == now + 1
        i == find_task(tasks, task_id)
    IN  IF i = 0
        THEN /\ last' = Call("complete", task_id, NoReply, 0, "ok", <<"Task not found">>)
             /\ UNCHANGED <<tasks, task_history, file, provider, now>>
        ELSE /\ now < MaxClock
             /\ tasks' = [tasks EXCEPT ![i] = mark_completed(tasks[i], t)]
             /\ task_history' = Append(task_history, history_entry(task_id, t))
             /\ now' = t
             /\ file' = save_tasks(tasks')
             /\ last' = Call("complete", task_id, NoReply, 0, "ok",
                             <<"Completed task: ", tasks[i]["description"]>>)
             /\ UNCHANGED provider

\* Faulty variant: the provider is asked whatever the collection holds
get_smart_recommendations_always(reply) ==
    /\ last' = IF ~reply.ok
               THEN Call("recommend", "none", reply, 1, "APIError", <<>>)
               ELSE IF reply.blocks = <<>>
               THEN Call("recommend", "none", reply, 1, "IndexError", <<>>)
               ELSE Call("recommend", "none", reply, 1, "ok", <<first_text(reply)>>)
    /\ UNCHANGED <<tasks, task_history, file, provider, now>>

get_smart_recommendations(reply) ==
    /\ last' = IF tasks = <<>>
               THEN Call("recommend", "none", NoReply, 0, "ok", <<EmptyMessage>>)
               ELSE IF ~reply.ok
               THEN Call("recommend", "none", reply, 1, "APIError", <<>>)
               ELSE IF reply.blocks = <<>>
               THEN Call("recommend", "none", reply, 1, "IndexError", <<>>)
               ELSE Call("recommend", "none", reply, 1, "ok", <<first_text(reply)>>)
    /\ UNCHANGED <<tasks, task_history, file, provider, now>>

generate_progress_report(reply) ==
    /\ last' = IF ~reply.ok
               THEN Call("report", "none", reply, 1, "APIError", <<>>)
               ELSE IF reply.blocks = <<>>
               THEN Call("report", "none", reply, 1, "IndexError", <<>>)
               ELSE Call("report", "none", reply, 1, "ok", <<first_text(reply)>>)
    /\ UNCHANGED <<tasks, task_history, file, provider, now>>

display_tasks ==
    /\ last' = Call("list", "none", NoReply, 0, "ok",
                    IF tasks = <<>> THEN <<"No tasks found.">>
                    ELSE [i \in 1 .. Len(tasks) |-> display_line(tasks[i])])
    /\ UNCHANGED <<tasks, task_history, file, provider, now>>

\* The process ends and a new one starts: __init__ of either binding
Restart(p) ==
    /\ tasks' = load_tasks(file)
    /\ task_history' = <<>>
    /\ provider' = p
    /\ last' = Call("init", "none", NoReply, 0, "ok", <<>>)
    /\ UNCHANGED <<file, now>>

Init ==
    /\ file = Absent
    /\ tasks = load_tasks(Absent)
    /\ task_history = <<>>
    /\ provider \in Providers
    /\ now = 0
    /\ last = Call("init", "none", NoReply, 0, "ok", <<>>)

AddStep ==
    \E d \in Descriptions, r \in AnalysisReplies : add_task(d, r)

CompleteStep ==
    \E id \in TaskIds : complete_task(id)

RecommendStep == \E r \in TextReplies : get_smart_recommendations(r)

ReportStep == \E r \in TextReplies : generate_progress_report(r)

ListStep == display_tasks

RestartStep == \E p \in Providers : Restart(p)

Next ==
    \/ AddStep
    \/ CompleteStep
    \/ RecommendStep
    \/ ReportStep
    \/ ListStep
    \/ RestartStep

Spec == Init /\ [][Next]_vars

-----------------------------------------------------------------------------
(* Properties *)

Indices(ts) == 1 .. Len(ts)

RequiredFields ==
    {"id", "description", "created_at", "priority", "estimated_hours",
     "category", "subtasks", "status"}

Completed(task) == task["status"] = "completed"

\* C1: add either appends exactly one task at the end of the collection, with
\* all required fields, status pending and an id no task already has, or
\* fails and leaves the collection and the backing document as they were.
C1_AddAtomic ==
    [][last'.op = "add" =>
        IF last'.result = "ok"
        THEN /\ Len(tasks') = Len(tasks) + 1
             /\ SubSeq(tasks', 1, Len(tasks)) = tasks
             /\ LET task == tasks'[Len(tasks')]
                IN  /\ DOMAIN task = RequiredFields
                    /\ task["status"] = "pending"
                    /\ task["description"] = last'.arg
                    /\ \A i \in Indices(tasks) : tasks[i]["id"] # task["id"]
        ELSE /\ tasks' = tasks
             /\ file' = file]_vars

\* An add succeeded on a collection that already held a task; an add failed
\* on a collection that was saved before.
C1_Witness ==
    /\ last.op = "add"
    /\ last.result = "ok"
    /\ Len(tasks) >= 2

C1_WitnessFailed ==
    last.op = "add" /\ last.result = "JSONDecodeError" /\ file.exists

\* C2: complete(id) on a pending task with that id leaves it completed with
\* completed_at set and changes no other task; complete(id) with no such
\* task answers "Task not found" and leaves the collection, the history and
\* the backing document as they were.
C2_Complete ==
    [][last'.op = "complete" =>
        IF \E i \in Indices(tasks) : tasks[i]["id"] = last'.arg
        THEN /\ Len(tasks') = Len(tasks)
             /\ \A i \in Indices(tasks) :
                    IF tasks[i]["id"] = last'.arg
                    THEN ~Completed(tasks[i]) =>
                            /\ Completed(tasks'[i])
                            /\ "completed_at" \in DOMAIN tasks'[i]
                    ELSE tasks'[i] = tasks[i]
        ELSE /\ last'.ret = <<"Task not found">>
             /\ UNCHANGED <<tasks, task_history, file>>]_vars

\* A pending task was completed while another task was in the collection.
C2_Witness ==
    /\ last.op = "complete"
    /\ Len(tasks) >= 2
    /\ \E i, j \in Indices(tasks) :
          /\ tasks[i]["id"] = last.arg
          /\ Completed(tasks[i])
          /\ ~Completed(tasks[j])

\* C3: no two tasks have the same id, and the id the next add would assign
\* is the id of no task.
C3_IdsUnique ==
    /\ \A i, j \in Indices(tasks) : i # j => tasks[i]["id"] # tasks[j]["id"]
    /\ \A i \in Indices(tasks) : tasks[i]["id"] # next_id(tasks)

\* Two tasks, one of them completed, reloaded by a restart.
C3_Witness ==
    /\ last.op = "init"
    /\ Len(tasks) >= 2
    /\ \E i \in Indices(tasks) : Completed(tasks[i])

\* C4: recommend on an empty collection gives the fixed message with no call
\* to the provider; on a non-empty one it makes one call and gives back the
\* provider's text as it is.
C4_Recommend ==
    last.op = "recommend" =>
        IF tasks = <<>>
        THEN /\ last.aiCalls = 0
             /\ last.result = "ok"
             /\ last.ret = <<EmptyMessage>>
        ELSE /\ last.aiCalls = 1
             /\ (last.reply.ok /\ last.reply.blocks # <<>>) =>
                    /\ last.result = "ok"
                    /\ last.ret = last.reply.blocks
             /\ last.result = "ok" => last.reply.ok

C4_Witness ==
    /\ last.op = "recommend"
    /\ tasks = <<>>
    /\ file.exists = FALSE
    /\ last.ret = <<EmptyMessage>>

C4_WitnessNonEmpty ==
    last.op = "recommend" /\ tasks # <<>> /\ last.result = "ok"

\* C5: every successful complete(id) appends one entry with action complete
\* and task_id id at the end of the history, no other call changes the
\* history, and a restart empties it while the tasks stay.
C5_History ==
    [][LET found == \E i \in Indices(tasks) : tasks[i]["id"] = last'.arg
       IN  IF last'.op = "complete" /\ found
           THEN /\ Len(task_history') = Len(task_history) + 1
                /\ SubSeq(task_history', 1, Len(task_history)) = task_history
                /\ task_history'[Len(task_history')].action = "complete"
                /\ task_history'[Len(task_history')].task_id = last'.arg
           ELSE IF last'.op = "init"
           THEN /\ task_history' = <<>>
                /\ tasks' = tasks
           ELSE task_history' = task_history]_vars

\* Two tasks were completed one after the other.
C5_Witness ==
    /\ last.op = "complete"
    /\ Len(task_history) = 2
    /\ task_history[1].task_id # task_history[2].task_id

C5_WitnessRestart ==
    /\ last.op = "init"
    /\ task_history = <<>>
    /\ \E i \in Indices(tasks) : Completed(tasks[i])

\* C6: the backing document always loads to the collection in memory, and
\* loading with no document gives the empty collection.
C6_FileInStep ==
    /\ load_tasks(file) = tasks
    /\ Len(file.text) = Len(tasks)
    /\ ~file.exists => tasks = <<>>

\* A completion was saved while the collection held a pending task too.
C6_Witness ==
    /\ file.exists
    /\ Len(file.text) >= 2
    /\ \E i, j \in Indices(tasks) : Completed(tasks[i]) /\ ~Completed(tasks[j])

\* C7: completed_at is absent while a task is pending, and once written no
\* later call changes it.
C7_CompletedAtOnce ==
    [][\A i \in Indices(tasks) :
        /\ ~Completed(tasks[i]) => "completed_at" \notin DOMAIN tasks[i]
        /\ "completed_at" \in DOMAIN tasks[i] =>
              /\ i \in Indices(tasks')
              /\ "completed_at" \in DOMAIN tasks'[i]
              /\ tasks'[i]["completed_at"] = tasks[i]["completed_at"]]_vars

\* C8: a task stays in the collection at its position with its id,
\* description and created_at, a completed task stays completed, and the
\* collection never gets shorter.
C8_Lifecycle ==
    [][/\ Len(tasks') >= Len(tasks)
       /\ \A i \in Indices(tasks) :
            /\ tasks'[i]["id"] = tasks[i]["id"]
            /\ tasks'[i]["description"] = tasks[i]["description"]
            /\ tasks'[i]["created_at"] = tasks[i]["created_at"]
            /\ Completed(tasks[i]) => Completed(tasks'[i])]_vars

\* A completed task was completed again after another task was added.
C8_Witness ==
    /\ last.op = "complete"
    /\ Len(tasks) >= 2
    /\ \E h, k \in Indices(task_history) :
          h # k /\ task_history[h].task_id = task_history[k].task_id

\* C9: every task's priority is high, medium or low.
C9_PriorityEnum ==
    \A i \in Indices(tasks) : tasks[i]["priority"] \in {"high", "medium", "low"}

TimeKeys == {"estimated_time", "estimated_time_to_complete"}

\* The reply is an analysis with every key the bindings read, the estimate
\* under the name k alone
HasEstimateUnder(reply, k) ==
    /\ reply.ok
    /\ reply.blocks # <<>>
    /\ reply.blocks[1].kind = "object"
    /\ Keys(reply.blocks[1].members) = (AllKeys \ TimeKeys) \cup {k}

\* C10: under either binding an analysis that carries the estimate under
\* estimated_time or under estimated_time_to_complete makes add store a task
\* with that estimate as estimated_hours.
C10_Normalized ==
    \A k \in TimeKeys :
        (last.op = "add" /\ HasEstimateUnder(last.reply, k))
            => /\ last.result = "ok"
               /\ tasks # <<>>
               /\ tasks[Len(tasks)]["estimated_hours"]
                    = LastValue(last.reply.blocks[1].members, k)

====
